---- MODULE Spec2Model ----
(***************************************************************************)
(* Model of the two scripts of solar-house:                                *)
(*   fetch_2025.py     the per-day fetch-and-aggregate loop and its report *)
(*   test_myenergi.py  the one-shot credential probe                       *)
(* A behaviour is one run of one of the two scripts (variable prog).  The  *)
(* remote server is the environment: every GET draws its outcome from a    *)
(* bounded set of responses.                                               *)
(***************************************************************************)
EXTENDS Integers, Sequences, FiniteSets, TLC

VARIABLES prog,            \* which script this run executes
          start, end,      \* fetch_2025: the date range
          current,         \* fetch_2025: loop variable
          totals,          \* fetch_2025: the accumulator
          days_processed,  \* fetch_2025: processed-day counter
          pc,              \* position in the running script
          io,              \* GETs issued and lines printed, in order
          served,          \* responses the server gave so far, in order
          environ,         \* the process environment
          resp,            \* test_myenergi: the variable resp
          exit_status      \* process exit status, -1 while running

vars == <<prog, start, end, current, totals, days_processed, pc, io, served,
          environ, resp, exit_status>>

-----------------------------------------------------------------------------
(* Bounds of the model *)

\* longest range is MaxSpan + 1 days
MaxSpan == 2

-----------------------------------------------------------------------------
(* Program constants *)

ZAPPI == "21962448"
SERVER == "s18.myenergi.net"
WsPerKWh == 3600000
DirectorUrl == "https://director.myenergi.net/cgi-jstatus-*"
AsnHeader == "x_myenergi-asn"

\* the keys of totals, in the order the dict iterates them
Fields == <<"imp", "exp", "gep", "gen", "h1d", "h1b">>

ZeroTotals == [imp |-> 0, exp |-> 0, gep |-> 0, gen |-> 0, h1d |-> 0, h1b |-> 0]

-----------------------------------------------------------------------------
(* datetime.date: a date is <<year, month, day>> *)

IsLeap(y) == (y % 4 = 0 /\ y % 100 # 0) \/ y % 400 = 0

DaysInMonth(y, m) ==
  IF m = 2 THEN (IF IsLeap(y) THEN 29 ELSE 28)
  ELSE IF m \in {4, 6, 9, 11} THEN 30 ELSE 31

\* what date arithmetic gives past date.max: an OverflowError is raised
OverflowError == <<"OverflowError">>

IsOverflow(v) == Len(v) = 1

\* current + timedelta(days=1); date.max is 9999-12-31
NextDay(dt) ==
  IF dt = <<9999, 12, 31>> THEN OverflowError
  ELSE IF dt[3] < DaysInMonth(dt[1], dt[2]) THEN <<dt[1], dt[2], dt[3] + 1>>
  ELSE IF dt[2] < 12 THEN <<dt[1], dt[2] + 1, 1>>
  ELSE <<dt[1] + 1, 1, 1>>

\* a <= b on dates
DateLE(a, b) ==
  \/ a[1] < b[1]
  \/ a[1] = b[1] /\ a[2] < b[2]
  \/ a[1] = b[1] /\ a[2] = b[2] /\ a[3] <= b[3]

Digit == <<"0", "1", "2", "3", "4", "5", "6", "7", "8", "9">>

Pad2(n) == Digit[((n \div 10) % 10) + 1] \o Digit[(n % 10) + 1]

RECURSIVE NatStr(_)
NatStr(n) == IF n < 10 THEN Digit[n + 1] ELSE NatStr(n \div 10) \o Digit[(n % 10) + 1]

\* strftime("%Y"): the year without padding
YearStr(y) == NatStr(y)

\* current.strftime("%Y-%m-%d")
DateStr(dt) == YearStr(dt[1]) \o "-" \o Pad2(dt[2]) \o "-" \o Pad2(dt[3])

MonthName == <<"January", "February", "March", "April", "May", "June", "July",
               "August", "September", "October", "November", "December">>

\* f"https://{SERVER}/cgi-jday-Z{ZAPPI}-{date_str}"
DayUrl(dt) == "https://" \o SERVER \o "/cgi-jday-Z" \o ZAPPI \o "-" \o DateStr(dt)

\* f"U{ZAPPI}"
DeviceKey == "U" \o ZAPPI

-----------------------------------------------------------------------------
(* JSON values of a reading record: a number, a boolean, or null *)

Num(n) == [t |-> "int", v |-> n]
Bool(b) == [t |-> "bool", v |-> IF b THEN 1 ELSE 0]
Null == [t |-> "null", v |-> 0]

\* int += v succeeds: v is a number or a bool (a bool is an int, True is 1)
Addable(v) == v.t \in {"int", "bool"}

\* reading records the modelled server returns: the one of the one-day
\* example, one with all six fields and an untracked one, one whose gep is
\* null, and one with booleans
R1 == [imp |-> Num(3600000), exp |-> Num(0), gep |-> Num(0)]
R2 == [imp |-> Num(180000), exp |-> Num(900000), gep |-> Num(360000),
       gen |-> Num(7), h1d |-> Num(11), h1b |-> Num(13), frq |-> Num(5000)]
R3 == [imp |-> Num(1260000), gep |-> Null, gen |-> Num(3)]
R4 == [imp |-> Bool(TRUE), gep |-> Bool(FALSE), gen |-> Num(3)]

\* the lists of readings the modelled server returns under the device key
ReadingLists == {<<>>, <<R1>>, <<R1, R2>>, <<R4, R2>>, <<R1, R3>>, <<R3, R2>>}

\* what one GET of the daily endpoint can produce
\*   error    the GET raises (timeout, connection error)
\*   notok    a response whose status is not OK
\*   empty    an OK response with an empty body
\*   badjson  an OK, non-empty body that is not JSON
\*   json     an OK body holding a JSON object; data maps its keys to values
DayResponses ==
  {[kind |-> k, data |-> <<>>] : k \in {"error", "notok", "empty", "badjson"}}
  \cup {[kind |-> "json", data |-> [other |-> <<>>]]}
  \cup {[kind |-> "json", data |-> (DeviceKey :> rs)] : rs \in ReadingLists}

-----------------------------------------------------------------------------
(* The accumulation loops of fetch_2025.py, with Python's exceptions:      *)
(* a result is [tot |-> totals so far, raised |-> an exception escaped]    *)

\* for field in totals: if field in reading: totals[field] += reading[field]
RECURSIVE AddFields(_, _, _)
AddFields(tot, reading, i) ==
  IF i > Len(Fields) THEN [tot |-> tot, raised |-> FALSE]
  ELSE LET f == Fields[i] IN
       IF f \notin DOMAIN reading THEN AddFields(tot, reading, i + 1)
       ELSE IF ~Addable(reading[f]) THEN [tot |-> tot, raised |-> TRUE]
       ELSE AddFields([tot EXCEPT ![f] = @ + reading[f].v], reading, i + 1)

\* for reading in data[key]: ...
RECURSIVE AddReadings(_, _, _)
AddReadings(tot, readings, j) ==
  IF j > Len(readings) THEN [tot |-> tot, raised |-> FALSE]
  ELSE LET r == AddFields(tot, readings[j], 1) IN
       IF r.raised THEN r ELSE AddReadings(r.tot, readings, j + 1)

\* if key in data: for reading in data[key]: ...
Accumulate(tot, data) ==
  IF DeviceKey \in DOMAIN data THEN AddReadings(tot, data[DeviceKey], 1)
  ELSE [tot |-> tot, raised |-> FALSE]

\* the try block with the count moved after the except clause
TryBlockCountAlways(tot, days, rsp) ==
  IF rsp.kind = "error" THEN [tot |-> tot, days |-> days + 1, raised |-> TRUE]
  ELSE IF rsp.kind \in {"notok", "empty"} THEN [tot |-> tot, days |-> days + 1, raised |-> FALSE]
  ELSE IF rsp.kind = "badjson" THEN [tot |-> tot, days |-> days + 1, raised |-> TRUE]
  ELSE LET r == Accumulate(tot, rsp.data) IN
       [tot |-> r.tot, days |-> days + 1, raised |-> r.raised]

\* the try block: the GET, the parse, the accumulation and the count
TryBlock(tot, days, rsp) ==
  IF rsp.kind = "error" THEN [tot |-> tot, days |-> days, raised |-> TRUE]
  ELSE IF rsp.kind \in {"notok", "empty"} THEN [tot |-> tot, days |-> days, raised |-> FALSE]
  ELSE IF rsp.kind = "badjson" THEN [tot |-> tot, days |-> days, raised |-> TRUE]
  ELSE LET r == Accumulate(tot, rsp.data) IN
       IF r.raised THEN [tot |-> r.tot, days |-> days, raised |-> TRUE]
       ELSE [tot |-> r.tot, days |-> days + 1, raised |-> FALSE]

-----------------------------------------------------------------------------
(* f"{x / 3600000:.1f}": true division to the nearest double, then the     *)
(* double to the nearest tenth (an exact tie goes to the even tenth)       *)

RECURSIVE BitLen(_)
BitLen(n) == IF n = 0 THEN 0 ELSE 1 + BitLen(n \div 2)

\* 2^k mod 5
Pow2Mod5(k) == <<1, 2, 4, 3>>[(k % 4) + 1]

\* n odd: is the double nearest to n/20 above (1), below (-1) or equal to (0) n/20
\* n/20 rounds as n/5 does; below n/5's 53 significant bits the tail is
\* (n * 2^k mod 5)/5 of the last place, k the number of fraction bits kept
DoubleVsTie(n) ==
  LET whole == n \div 5
      f == n % 5
      k == IF whole > 0 THEN 53 - BitLen(whole) ELSE (IF f >= 3 THEN 53 ELSE 55)
      tail == (f * Pow2Mod5(k)) % 5
  IN IF f = 0 THEN 0 ELSE IF tail >= 3 THEN 1 ELSE -1

\* the number of tenths printed for |x| watt-seconds
Tenths(a) ==
  LET q == a \div (WsPerKWh \div 10)
      r == a % (WsPerKWh \div 10)
      half == WsPerKWh \div 20
      side == DoubleVsTie(2 * q + 1)
  IN IF r < half THEN q
     ELSE IF r > half THEN q + 1
     ELSE IF side = 1 THEN q + 1
     ELSE IF side = -1 THEN q
     ELSE IF q % 2 = 0 THEN q ELSE q + 1

Abs(x) == IF x < 0 THEN -x ELSE x

\* f"{x / 3600000:.1f}"
Kwh(x) ==
  LET t == Tenths(Abs(x))
  IN (IF x < 0 THEN "-" ELSE "") \o NatStr(t \div 10) \o "." \o Digit[(t % 10) + 1]

-----------------------------------------------------------------------------
(* What the scripts do to the outside: GETs and printed lines *)

Get(url) == [op |-> "GET", url |-> url]

\* print(f"Error {date_str}: {e}")
ErrorLine(dt) == [op |-> "print", line |-> "Error", date |-> DateStr(dt)]

\* print(f"{current.strftime('%B %Y')}... ({days_processed} days)")
ProgressLine(dt, days) ==
  [op |-> "print", line |-> "progress",
   month |-> MonthName[dt[2]] \o " " \o YearStr(dt[1]), days |-> days]

\* the report with the consumption computed from gen instead of gep
ReportLinesGen(tot, days) ==
  [op |-> "print", line |-> "report", days |-> days,
   Import |-> Kwh(tot.imp), Export |-> Kwh(tot.exp), Generation |-> Kwh(tot.gep),
   Consumption |-> Kwh(tot.imp + tot.gen - tot.exp)]

\* the five lines of the final report
ReportLines(tot, days) ==
  [op |-> "print", line |-> "report", days |-> days,
   Import |-> Kwh(tot.imp), Export |-> Kwh(tot.exp), Generation |-> Kwh(tot.gep),
   Consumption |-> Kwh(tot.imp + tot.gep - tot.exp)]

-----------------------------------------------------------------------------
(* fetch_2025.py *)

\* the first dates of the modelled ranges: a month start, a month end, the
\* end of a leap and of a common February, a year end
BaseDates ==
  {<<2025, 1, 1>>, <<2025, 1, 31>>, <<2024, 2, 28>>, <<2025, 2, 28>>, <<2025, 12, 31>>}

RECURSIVE AddDays(_, _)
AddDays(dt, k) == IF k = 0 THEN dt ELSE AddDays(NextDay(dt), k - 1)

\* the ranges: a base date and the date up to MaxSpan days later, either way round
Ranges ==
  LET fwd == {<<a, AddDays(a, k)>> : a \in BaseDates, k \in 0..MaxSpan}
  IN fwd \cup {<<p[2], p[1]>> : p \in fwd}

\* the value of resp before the first GET
NoResp == [headers |-> ("Content-Type" :> "none"), json |-> FALSE, body |-> "none"]

\* an environment that sets neither variable
NoEnv == ("PATH" :> "/usr/bin")

FetchInit ==
  /\ prog = "fetch_2025"
  /\ \E rg \in Ranges : start = rg[1] /\ end = rg[2]
  /\ current = start
  /\ totals = ZeroTotals
  /\ days_processed = 0
  /\ environ = NoEnv
  /\ resp = NoResp

\* the loop condition written as "until current passes end"
LoopCondNe(cur, e) == cur # NextDay(e)

\* while current <= end
LoopCond(cur, e) == DateLE(cur, e)

\* the progress line printed only when the try block did not raise
AfterTryQuietOnError(dt, r) ==
  IF r.raised THEN <<ErrorLine(dt)>>
  ELSE IF dt[3] = 1 THEN <<ProgressLine(dt, r.days)>> ELSE <<>>

\* what the iteration prints after the try block
AfterTry(dt, r) ==
  (IF r.raised THEN <<ErrorLine(dt)>> ELSE <<>>)
  \o (IF dt[3] = 1 THEN <<ProgressLine(dt, r.days)>> ELSE <<>>)

\* the iteration with a retry: a date whose try block raised is fetched again
IterationRetry ==
  /\ prog = "fetch_2025" /\ pc = "run"
  /\ LoopCond(current, end)
  /\ \E rsp \in DayResponses :
       LET r == TryBlock(totals, days_processed, rsp) IN
       /\ totals' = r.tot
       /\ days_processed' = r.days
       /\ io' = io \o <<Get(DayUrl(current))>> \o AfterTry(current, r)
       /\ served' = Append(served, rsp)
       /\ current' = IF r.raised THEN current ELSE NextDay(current)
  /\ UNCHANGED <<prog, start, end, pc, environ, resp, exit_status>>

\* one iteration of the while loop: the GET, the try block, the progress
\* line, the step to the next date; the step is outside the try block, so an
\* OverflowError there ends the script with status 1 and no report
Iteration ==
  /\ prog = "fetch_2025" /\ pc = "run"
  /\ LoopCond(current, end)
  /\ \E rsp \in DayResponses :
       LET r == TryBlock(totals, days_processed, rsp) IN
       /\ totals' = r.tot
       /\ days_processed' = r.days
       /\ io' = io \o <<Get(DayUrl(current))>> \o AfterTry(current, r)
       /\ served' = Append(served, rsp)
  /\ IF IsOverflow(NextDay(current))
     THEN current' = current /\ pc' = "done" /\ exit_status' = 1
     ELSE current' = NextDay(current) /\ UNCHANGED <<pc, exit_status>>
  /\ UNCHANGED <<prog, start, end, environ, resp>>

\* the loop ends: the report is printed and the script exits
Report ==
  /\ prog = "fetch_2025" /\ pc = "run"
  /\ ~LoopCond(current, end)
  /\ io' = Append(io, ReportLines(totals, days_processed))
  /\ pc' = "done"
  /\ exit_status' = 0
  /\ UNCHANGED <<prog, start, end, current, totals, days_processed, served,
                 environ, resp>>

-----------------------------------------------------------------------------
(* test_myenergi.py *)

\* a str is <<s>>; None is <<>>
None == <<>>

\* os.environ.get(name)
EnvGet(env, name) == IF name \in DOMAIN env THEN <<env[name]>> ELSE None

\* not v, for v a str or None
Not(v) == v = None \/ v = <<"">>

SERIAL == EnvGet(environ, "MYENERGI_SERIAL")
API_KEY == EnvGet(environ, "MYENERGI_API_KEY")

\* the environments of the modelled runs: each variable unset, empty or set
Environs ==
  {NoEnv @@ s @@ k :
     s \in {<<>>, "MYENERGI_SERIAL" :> "", "MYENERGI_SERIAL" :> "21479935"},
     k \in {<<>>, "MYENERGI_API_KEY" :> "", "MYENERGI_API_KEY" :> "key"}}

\* str.lower() on the header names of the model
Lower(s) ==
  CASE s = "X_MYENERGI-asn" -> "x_myenergi-asn"
    [] s = "Content-Type" -> "content-type"
    [] OTHER -> s

\* name in resp.headers (a case-insensitive dict)
HasHeader(headers, name) == \E h \in DOMAIN headers : Lower(h) = Lower(name)

\* resp.headers[name]
HeaderValue(headers, name) ==
  headers[CHOOSE h \in DOMAIN headers : Lower(h) = Lower(name)]

Hosts == {"s18.myenergi.net", "s7.myenergi.net"}

\* what a GET of the status endpoint can return: the headers, whether the
\* body is JSON, and the body
StatusResponses ==
  LET ct == ("Content-Type" :> "application/json")
      hs == {ct} \cup {ct @@ (n :> h) :
                         n \in {"x_myenergi-asn", "X_MYENERGI-asn", "x-myenergi-asn"},
                         h \in Hosts}
  IN {[headers |-> h, json |-> j, body |-> b] :
        h \in hs, j \in BOOLEAN, b \in {"status A", "status B"}}

\* the outcome of a GET that raises
Raised == [kind |-> "error", data |-> <<>>]

\* f"https://{server}/cgi-jstatus-*"
StatusUrl(server) == "https://" \o server \o "/cgi-jstatus-*"

ProbeInit ==
  /\ prog = "test_myenergi"
  /\ environ \in Environs
  /\ resp = NoResp
  /\ start = <<2025, 1, 1>> /\ end = <<2025, 12, 31>> /\ current = start
  /\ totals = ZeroTotals
  /\ days_processed = 0

\* the check written with "and": only both values missing is an error
MissingBoth(serial, key) == Not(serial) /\ Not(key)

\* if not SERIAL or not API_KEY
Missing(serial, key) == Not(serial) \/ Not(key)

\* the configuration message and exit(1)
ProbeConfigError ==
  /\ prog = "test_myenergi" /\ pc = "run"
  /\ Missing(SERIAL, API_KEY)
  /\ io' = Append(io, [op |-> "print", line |-> "config"])
  /\ pc' = "done"
  /\ exit_status' = 1
  /\ UNCHANGED <<prog, start, end, current, totals, days_processed, served,
                 environ, resp>>

\* resp = session.get(director); an exception ends the script with status 1
ProbeDirector ==
  /\ prog = "test_myenergi" /\ pc = "run"
  /\ ~Missing(SERIAL, API_KEY)
  /\ io' = Append(io, Get(DirectorUrl))
  /\ \/ \E r \in StatusResponses :
          /\ resp' = r
          /\ served' = Append(served, r)
          /\ pc' = "director"
          /\ UNCHANGED exit_status
     \/ /\ served' = Append(served, Raised)
        /\ pc' = "done"
        /\ exit_status' = 1
        /\ UNCHANGED resp
  /\ UNCHANGED <<prog, start, end, current, totals, days_processed, environ>>

\* the header looked up in a plain, case-sensitive dict
AssignedExactCase(r) == AsnHeader \in DOMAIN r.headers

\* if "x_myenergi-asn" in resp.headers
Assigned(r) == HasHeader(r.headers, AsnHeader)

\* server = resp.headers[...]; resp = session.get(f"https://{server}/...")
ProbeRetarget ==
  /\ prog = "test_myenergi" /\ pc = "director"
  /\ Assigned(resp)
  /\ io' = Append(io, Get(StatusUrl(HeaderValue(resp.headers, AsnHeader))))
  /\ \/ \E r \in StatusResponses :
          /\ resp' = r
          /\ served' = Append(served, r)
          /\ pc' = "print"
          /\ UNCHANGED exit_status
     \/ /\ served' = Append(served, Raised)
        /\ pc' = "done"
        /\ exit_status' = 1
        /\ UNCHANGED resp
  /\ UNCHANGED <<prog, start, end, current, totals, days_processed, environ>>

\* print(resp.json()); a body that is not JSON raises
ProbePrint ==
  /\ prog = "test_myenergi"
  /\ pc = "print" \/ (pc = "director" /\ ~Assigned(resp))
  /\ IF resp.json
     THEN /\ io' = Append(io, [op |-> "print", line |-> "json", body |-> resp.body])
          /\ exit_status' = 0
     ELSE /\ io' = io
          /\ exit_status' = 1
  /\ pc' = "done"
  /\ UNCHANGED <<prog, start, end, current, totals, days_processed, served,
                 environ, resp>>

-----------------------------------------------------------------------------
(* The specification *)

Init ==
  /\ FetchInit \/ ProbeInit
  /\ pc = "run"
  /\ io = <<>>
  /\ served = <<>>
  /\ exit_status = -1

Next ==
  \/ Iteration
  \/ Report
  \/ ProbeConfigError
  \/ ProbeDirector
  \/ ProbeRetarget
  \/ ProbePrint

Spec == Init /\ [][Next]_vars

\* a running script takes its next step: every call returns or raises
FairSpec == Spec /\ WF_vars(Next)

-----------------------------------------------------------------------------
(* Vocabulary of the properties *)

IsFetch == prog = "fetch_2025"
IsProbe == prog = "test_myenergi"

\* the dates of the inclusive range, ascending
RECURSIVE RangeDates(_, _)
RangeDates(s, e) == IF DateLE(s, e) THEN <<s>> \o RangeDates(NextDay(s), e) ELSE <<>>

IsGet(e) == e.op = "GET"
Gets == SelectSeq(io, IsGet)

IsLine(e, kind) == e.op = "print" /\ e.line = kind

\* the dates handled so far are the first Len(served) dates of the range
Handled == 1..Len(served)

TrackedFields == {Fields[i] : i \in 1..Len(Fields)}

HasKey(rsp) == rsp.kind = "json" /\ DeviceKey \in DOMAIN rsp.data

\* the reading records of a response, none when the key is absent
RecordsOf(rsp) == IF HasKey(rsp) THEN rsp.data[DeviceKey] ELSE <<>>

\* a record every tracked field of which can be added: a number, or a
\* boolean (worth 1 or 0)
WellFormed(reading) ==
  \A f \in TrackedFields \cap DOMAIN reading : reading[f].t # "null"

AllWellFormed(rsp) == \A j \in 1..Len(RecordsOf(rsp)) : WellFormed(RecordsOf(rsp)[j])

\* the value a record contributes to a field: 0 when the field is missing
FieldValue(reading, f) ==
  IF f \in DOMAIN reading /\ reading[f].t # "null" THEN reading[f].v ELSE 0

RECURSIVE SumRecords(_, _, _)
SumRecords(recs, f, n) ==
  IF n = 0 THEN 0 ELSE SumRecords(recs, f, n - 1) + FieldValue(recs[n], f)

\* the sum of a field over all the records of one response
DaySum(rsp, f) == SumRecords(RecordsOf(rsp), f, Len(RecordsOf(rsp)))

RECURSIVE SumDays(_, _, _)
SumDays(rsps, f, n) ==
  IF n = 0 THEN 0
  ELSE SumDays(rsps, f, n - 1) + (IF rsps[n].kind = "json" THEN DaySum(rsps[n], f) ELSE 0)

-----------------------------------------------------------------------------
(* Properties of fetch_2025.py *)

\* C1 as stated: the final days_processed is the number of dates whose
\* response was OK, non-empty, parsed and contained the key "U" + device id;
\* a date whose parsed response lacks the key is not counted.
C1_CountIsDaysWithKey ==
  (IsFetch /\ pc = "done") =>
    days_processed = Cardinality({i \in Handled : HasKey(served[i])})

\* C2 as stated: the final value of each of the six fields is the sum, over
\* the successfully parsed days and all the reading records under the key on
\* those days, of that field's value, a record missing the field giving 0.
C2_TotalsAreSumsOverParsedDays ==
  (IsFetch /\ pc = "done") =>
    \A f \in TrackedFields : totals[f] = SumDays(served, f, Len(served))

\* C10 as stated: at the end of an iteration the date either was counted and
\* contributed all of its reading records, or was not counted and contributed
\* nothing to any total.
C10_DayIsAtomic ==
  [][(IsFetch /\ Len(served') = Len(served) + 1) =>
       LET rsp == served'[Len(served')] IN
       \/ /\ days_processed' = days_processed + 1
          /\ \A f \in TrackedFields : totals'[f] = totals[f] + DaySum(rsp, f)
       \/ /\ days_processed' = days_processed
          /\ totals' = totals]_vars

\* C3: a transport error raised by the GET for a date leaves totals and
\* days_processed as they were before that iteration, the loop goes on to the
\* next date, and every later date of the range is still fetched.
C3_TransportErrorSkipsOnlyThatDay ==
  /\ [][(IsFetch /\ Len(served') = Len(served) + 1
                 /\ served'[Len(served')].kind = "error") =>
          /\ totals' = totals
          /\ days_processed' = days_processed
          /\ current' = NextDay(current)
          /\ pc' = "run"]_vars
  /\ [](IsFetch /\ pc = "done" =>
          \A i \in Handled : served[i].kind = "error" =>
            \A j \in (i + 1)..Len(RangeDates(start, end)) :
              /\ j \in Handled
              /\ Gets[j] = Get(DayUrl(RangeDates(start, end)[j])))

\* a finished run whose first date raised a transport error and whose second
\* date was counted and added to the totals
C3_Witness ==
  /\ IsFetch /\ pc = "done"
  /\ Len(served) >= 2
  /\ served[1].kind = "error"
  /\ HasKey(served[2]) /\ Len(RecordsOf(served[2])) > 0
  /\ days_processed >= 1
  /\ totals.imp > 0

\* C4: with the start date after the end date the run issues no request,
\* goes straight to the report, and reports all totals zero and zero
\* processed days.
C4_EmptyRange ==
  (IsFetch /\ ~DateLE(start, end)) =>
    /\ Gets = <<>>
    /\ served = <<>>
    /\ totals = ZeroTotals
    /\ days_processed = 0
    /\ pc = "run" => (ENABLED Report /\ ~ENABLED Iteration)
    /\ pc = "done" =>
         io = <<[op |-> "print", line |-> "report", days |-> 0,
                 Import |-> "0.0", Export |-> "0.0", Generation |-> "0.0",
                 Consumption |-> "0.0"]>>

\* a finished run over a range whose start is after its end
C4_Witness == IsFetch /\ ~DateLE(start, end) /\ pc = "done" /\ Len(io) = 1

\* the text s shows x watt-seconds in kWh to one decimal: the tenth shown is
\* within half a tenth of x / 3,600,000
ShowsKwh(x, s) ==
  \E t \in (Abs(x) \div 360000)..((Abs(x) \div 360000) + 1) :
    /\ s = (IF x < 0 THEN "-" ELSE "") \o NatStr(t \div 10) \o "." \o Digit[(t % 10) + 1]
    /\ Abs(10 * Abs(x) - t * 3600000) <= 1800000

\* the one-day run of 2025-01-01 with the single reading
\* {imp: 3600000, exp: 0, gep: 0} under the key
C5_Example ==
  /\ IsFetch /\ pc = "done"
  /\ start = <<2025, 1, 1>> /\ end = <<2025, 1, 1>>
  /\ Len(served) = 1 /\ HasKey(served[1])
  /\ RecordsOf(served[1]) = <<[imp |-> Num(3600000), exp |-> Num(0), gep |-> Num(0)]>>

\* C5: the report shows imp, exp and gep divided by 3,600,000 and the
\* consumption (imp + gep - exp) / 3,600,000; for the one-day example it shows
\* Import 1.0, Export 0.0, Generation 0.0, Consumption 1.0.
C5_ReportInKwh ==
  (IsFetch /\ pc = "done") =>
    LET rep == io[Len(io)] IN
    /\ IsLine(rep, "report")
    /\ rep.days = days_processed
    /\ ShowsKwh(totals.imp, rep.Import)
    /\ ShowsKwh(totals.exp, rep.Export)
    /\ ShowsKwh(totals.gep, rep.Generation)
    /\ ShowsKwh(totals.imp + totals.gep - totals.exp, rep.Consumption)
    /\ C5_Example =>
         /\ rep.Import = "1.0" /\ rep.Export = "0.0"
         /\ rep.Generation = "0.0" /\ rep.Consumption = "1.0"

\* the example run has printed its report
C5_Witness == C5_Example /\ IsLine(io[Len(io)], "report") /\ io[Len(io)].Import = "1.0"

\* C8: the run issues exactly one GET for each date of the inclusive range,
\* in ascending date order, never a second one for a date, whatever each
\* date's outcome, and then reaches the final report.
C8_OneGetPerDateThenReport ==
  LET dates == RangeDates(start, end)
      expected == [i \in 1..Len(dates) |-> Get(DayUrl(dates[i]))]
  IN /\ [](IsFetch =>
            /\ Len(Gets) <= Len(expected)
            /\ \A i \in 1..Len(Gets) : Gets[i] = expected[i]
            /\ Len(Gets) = Len(served)
            /\ pc = "done" => (Gets = expected /\ IsLine(io[Len(io)], "report")))
     /\ <>(IsFetch => pc = "done")

\* a finished run over three dates, one GET each, with an error, an empty
\* body and a counted day among the outcomes
C8_Witness ==
  /\ IsFetch /\ pc = "done"
  /\ Len(Gets) = 3 /\ Len(RangeDates(start, end)) = 3
  /\ {served[i].kind : i \in Handled} = {"error", "empty", "json"}

\* a date counted as processed
Counted(rsp) == rsp.kind = "json" /\ AllWellFormed(rsp)

\* the positions of io after the i-th GET and before the next one
Segment(i) ==
  {p \in 1..Len(io) : ~IsGet(io[p]) /\ Cardinality({q \in 1..p : IsGet(io[q])}) = i}

ProgressAt(i) == {p \in Segment(i) : IsLine(io[p], "progress")}

\* C9: exactly one progress line is printed for each date of the range that
\* is the first day of a month and none for any other date; it is printed
\* whether or not the fetch of that date succeeded, after the fetch has been
\* handled, and shows the number of dates up to and including it that were
\* counted as processed.
C9_ProgressOnFirstOfMonth ==
  IsFetch =>
    /\ \A i \in Handled :
         LET d == RangeDates(start, end)[i] IN
         IF d[3] = 1
         THEN /\ Cardinality(ProgressAt(i)) = 1
              /\ \A p \in ProgressAt(i) :
                   /\ io[p].days = Cardinality({j \in 1..i : Counted(served[j])})
                   /\ io[p].month = MonthName[d[2]] \o " " \o NatStr(d[1])
                   /\ \A q \in Segment(i) : IsLine(io[q], "Error") => q < p
         ELSE ProgressAt(i) = {}
    /\ Cardinality({p \in 1..Len(io) : IsLine(io[p], "progress")})
         = Cardinality({i \in Handled : RangeDates(start, end)[i][3] = 1})

\* the second date is a first of the month whose fetch raised, the first date
\* was counted, and the progress line of the second date shows one day
C9_Witness ==
  /\ IsFetch
  /\ Len(served) >= 2
  /\ Counted(served[1]) /\ served[2].kind = "error"
  /\ RangeDates(start, end)[2][3] = 1 /\ RangeDates(start, end)[1][3] # 1
  /\ \E p \in ProgressAt(2) : io[p].days = 1

-----------------------------------------------------------------------------
(* Properties of test_myenergi.py *)

\* C6: when MYENERGI_SERIAL or MYENERGI_API_KEY is absent or empty, the
\* probe prints the configuration message and exits with status 1, and no
\* request is ever issued.
C6_MissingConfigStopsBeforeAnyRequest ==
  (IsProbe /\ \E n \in {"MYENERGI_SERIAL", "MYENERGI_API_KEY"} :
                 n \notin DOMAIN environ \/ environ[n] = "") =>
    /\ Gets = <<>>
    /\ served = <<>>
    /\ pc \in {"run", "done"}
    /\ pc = "run" => (ENABLED ProbeConfigError /\ ~ENABLED ProbeDirector)
    /\ pc = "done" => (exit_status = 1 /\ io = <<[op |-> "print", line |-> "config"]>>)

\* a probe that ended on the configuration error with the serial set and the
\* key empty
C6_Witness ==
  /\ IsProbe /\ pc = "done" /\ exit_status = 1
  /\ "MYENERGI_SERIAL" \in DOMAIN environ /\ environ["MYENERGI_SERIAL"] # ""
  /\ "MYENERGI_API_KEY" \in DOMAIN environ /\ environ["MYENERGI_API_KEY"] = ""

\* the server-assignment header of a response, whatever the case of its name
AsnNames(rsp) == DOMAIN rsp.headers \cap {"x_myenergi-asn", "X_MYENERGI-asn"}

IsResponse(r) == "headers" \in DOMAIN r

\* C7: when the discovery response carries the server-assignment header the
\* probe issues a second status request to the host the header names and what
\* it prints is the second response, not the first; when the header is absent
\* exactly one request is made and its response is what is printed.
C7_PrintsRetargetedResponse ==
  (IsProbe /\ pc = "done" /\ Len(served) >= 1 /\ IsResponse(served[1])) =>
    LET first == served[1]
        printed == {p \in 1..Len(io) : IsLine(io[p], "json")}
    IN IF AsnNames(first) # {}
       THEN /\ Len(served) = 2
            /\ Gets = <<Get(DirectorUrl),
                        Get("https://" \o first.headers[CHOOSE n \in AsnNames(first) : TRUE]
                              \o "/cgi-jstatus-*")>>
            /\ \A p \in printed : io[p].body = served[2].body /\ p = Len(io)
            /\ (IsResponse(served[2]) /\ served[2].json) => printed # {}
       ELSE /\ Len(served) = 1
            /\ Gets = <<Get(DirectorUrl)>>
            /\ \A p \in printed : io[p].body = first.body /\ p = Len(io)
            /\ first.json => printed # {}

\* the discovery response named a server under an upper-case header name and
\* the probe printed the body of the second response, which differs from the
\* first
C7_Witness ==
  /\ IsProbe /\ pc = "done" /\ exit_status = 0
  /\ Len(served) = 2 /\ IsResponse(served[2])
  /\ "X_MYENERGI-asn" \in DOMAIN served[1].headers
  /\ served[1].body = "status A" /\ served[2].body = "status B"
  /\ io[Len(io)] = [op |-> "print", line |-> "json", body |-> "status B"]

====
